---- MODULE Spec2Model ----
(***************************************************************************)
(* Model of the minio-file-manager backend: the PostgreSQL interaction     *)
(* services (likes, comments and their threads, user behaviours, reading   *)
(* sessions and progress), the document ingestion pipeline (object storage *)
(* upload, content classification, Elasticsearch writes), the OSS storage  *)
(* service with its index side effect, the storage service factory, and    *)
(* the search service (query construction, article detail).                *)
(***************************************************************************)
EXTENDS Integers, Sequences, FiniteSets, TLC

VARIABLES
    newsletters,    \* PostgreSQL table newsletters: id -> [likeCount, commentCount]
    comments,       \* PostgreSQL table comments: id -> row
    likes,          \* PostgreSQL table likes: set of rows [id, userId, targetId, targetType]
    txn,            \* like-toggle transactions in flight, one per connection
    likeResult,     \* the dict returned by the last toggle of each connection
    obs,            \* per target: bookkeeping of undisturbed consecutive toggles
    nextId,         \* source of fresh uuid4 values
    opCount,        \* number of requests issued so far (bounds the exploration)
    commentCall,    \* the last POST /newsletters/{id}/comments: request, response, state before
    objects,        \* object storage: <<bucket, key>> -> bytes
    minio_articles, \* Elasticsearch index minio_articles: document id -> document
    minio_documents,\* Elasticsearch index document_pipeline_index: document id -> document
    enabled_types,  \* DocumentPipelineService.enabled_types
    uploadCall,     \* the last process_upload: arguments, outcome of each step, result
    files_index,    \* Elasticsearch file index: the <<bucket, key>> pairs indexed
    storageCall,    \* the last OSSService upload_file / delete_object: arguments, outcome
    searchArgs,     \* the arguments of the search request being served
    searchCall,     \* what the search made of them: the body sent to Elasticsearch, the echo
    detailArgs,     \* GET /newsletter/search/{article_id}: the id, what the two stores hold for it
    detailCall,     \* the answer: the service result and the HTTP status
    user_behaviors, \* PostgreSQL table user_behaviors: the rows in insertion order
    factoryEnv,     \* what the process was started with: settings.storage_type, OSS_AVAILABLE
    instances,      \* StorageFactory._instances: type key -> instance
    service_cache,  \* the lru_cache of get_storage_service: the instance it holds, if any
    instanceCount,  \* number of storage service objects constructed so far
    factoryCall     \* the last StorageFactory call: arguments, cache before, outcome

pgVars == <<newsletters, comments, likes, nextId>>
likeVars == <<txn, likeResult, obs>>
commentVars == <<commentCall>>
ingestVars == <<objects, minio_articles, minio_documents, enabled_types, uploadCall>>

storageVars == <<files_index, storageCall>>
searchVars == <<searchArgs, searchCall>>
detailVars == <<detailArgs, detailCall>>
behaviorVars == <<user_behaviors>>
factoryVars == <<factoryEnv, instances, service_cache, instanceCount, factoryCall>>
lateVars == <<factoryVars>>
extVars == <<storageVars, searchVars, detailVars, behaviorVars, lateVars>>

vars == <<pgVars, likeVars, opCount, commentVars, ingestVars, extVars>>

----------------------------------------------------------------------------
(* Bounds of the exploration *)

MaxOps == 4           \* requests issued in one behaviour
MaxInitLikes == 1     \* largest likeCount a target starts with
MaxCommentOps == 2    \* create_comment requests issued in one behaviour

----------------------------------------------------------------------------
(* Values *)

None == "None"

\* like_service.py:41 / comment_service.py:173, the mock user used when no userId is sent
DefaultUser == "cmdu8uetk007dvjcsfjnqg2wd"

Users == {"u1"}
UserInputs == Users \cup {None}

NewsletterIds == {"n1"}
CommentIds == {"c1"}
MissingId == "missing"

Conns == {1, 2}

\* `if not user_id: user_id = <mock user>`
EffectiveUser(user_id) == IF user_id = None THEN DefaultUser ELSE user_id

Max(a, b) == IF a >= b THEN a ELSE b

----------------------------------------------------------------------------
(* PostgreSQL tables as the like and comment services see them *)

TargetExists(targetType, id) ==
    IF targetType = "NEWSLETTER" THEN id \in DOMAIN newsletters
    ELSE id \in DOMAIN comments

StoredLikeCount(targetType, id) ==
    IF targetType = "NEWSLETTER" THEN newsletters[id].likeCount
    ELSE comments[id].likeCount

\* the like rows of one (userId, targetId, targetType)
LikeRows(user, targetType, id) ==
    {l \in likes : l.userId = user /\ l.targetId = id /\ l.targetType = targetType}

Liked(user, targetType, id) == LikeRows(user, targetType, id) # {}

\* UPDATE ... SET "likeCount" = GREATEST("likeCount" - 1, 0)
DecrementedCount(n) == Max(n - 1, 0)

\* UPDATE ... SET "likeCount" = "likeCount" + 1
IncrementedCount(n) == n + 1

\* new_count = max(row['likeCount'] - 1, 0)
ReportedCountAfterUnlike(n) == Max(n - 1, 0)

\* new_count = row['likeCount'] + 1
ReportedCountAfterLike(n) == n + 1

NotFoundError(targetType) ==
    IF targetType = "NEWSLETTER" THEN "Newsletter not found" ELSE "Comment not found"

----------------------------------------------------------------------------
(* Like toggle: one transaction per call, on its own pooled connection.    *)
(* Statements run under READ COMMITTED: a statement sees what is committed *)
(* when it starts, writes become visible at commit, and a row written by   *)
(* an open transaction blocks other writers of that row until it ends.     *)

IdleTxn ==
    [pc |-> "idle", targetType |-> "NEWSLETTER", targetId |-> MissingId,
     userId |-> DefaultUser, snap |-> 0, existing |-> 0, deleted |-> FALSE,
     inserted |-> 0, rowLocked |-> FALSE]

NoResult == [success |-> FALSE, error |-> "", targetId |-> MissingId,
             isLiked |-> FALSE, likeCount |-> 0, userId |-> DefaultUser]

NoObs ==
    [cur |-> 0, curUser |-> DefaultUser, preLiked |-> FALSE, preCount |-> 0,
     last |-> FALSE, lastUser |-> DefaultUser, lastPreLiked |-> FALSE,
     lastPreCount |-> 0, lastIsLiked |-> FALSE, lastCount |-> 0,
     pair |-> FALSE, pairLiked |-> FALSE, pairCount |-> 0]

\* some transaction on the target is open
ActiveOn(targetType, id) ==
    \E d \in Conns : /\ txn[d].pc # "idle"
                     /\ txn[d].targetType = targetType
                     /\ txn[d].targetId = id

\* a toggle starts: remember the state before it when nothing else is
\* running on the target, forget everything when the toggle overlaps another
ObsAtBegin(c, targetType, id, user) ==
    IF id \notin DOMAIN obs THEN obs
    ELSE IF ActiveOn(targetType, id)
         THEN [obs EXCEPT ![id] = NoObs]
         ELSE [obs EXCEPT ![id].cur = c, ![id].curUser = user,
                          ![id].preLiked = Liked(user, targetType, id),
                          ![id].preCount = StoredLikeCount(targetType, id)]

\* a toggle commits with the result it reports
ObsAtCommit(c, id, isLiked, count) ==
    IF id \notin DOMAIN obs THEN obs
    ELSE IF obs[id].cur # c THEN [obs EXCEPT ![id] = NoObs]
    ELSE LET o == obs[id] IN
         [obs EXCEPT ![id] =
            [cur |-> 0, curUser |-> DefaultUser, preLiked |-> FALSE, preCount |-> 0,
             last |-> TRUE, lastUser |-> o.curUser, lastPreLiked |-> o.preLiked,
             lastPreCount |-> o.preCount, lastIsLiked |-> isLiked, lastCount |-> count,
             pair |-> o.last /\ o.lastUser = o.curUser,
             pairLiked |-> o.lastPreLiked, pairCount |-> o.lastPreCount]]

\* LikeService.toggle_*_like up to `async with conn.transaction()`
TxBegin(c, targetType, id, user_id) ==
    /\ txn[c].pc = "idle"
    /\ opCount < MaxOps
    /\ opCount' = opCount + 1
    /\ obs' = ObsAtBegin(c, targetType, id, EffectiveUser(user_id))
    /\ txn' = [txn EXCEPT ![c] = [IdleTxn EXCEPT !.pc = "selectTarget",
                                                 !.targetType = targetType,
                                                 !.targetId = id,
                                                 !.userId = EffectiveUser(user_id)]]
    /\ UNCHANGED <<newsletters, comments, likes, likeResult, nextId>>
    /\ UNCHANGED <<commentVars, ingestVars, extVars>>

toggle_newsletter_like(c, newsletter_id, user_id) ==
    TxBegin(c, "NEWSLETTER", newsletter_id, user_id)

toggle_comment_like(c, comment_id, user_id) ==
    TxBegin(c, "COMMENT", comment_id, user_id)

\* SELECT id, "likeCount" FROM <table> WHERE id = $1
SelectTarget(c) ==
    /\ txn[c].pc = "selectTarget"
    /\ IF TargetExists(txn[c].targetType, txn[c].targetId)
       THEN /\ txn' = [txn EXCEPT ![c].pc = "selectLike",
                                  ![c].snap = StoredLikeCount(txn[c].targetType, txn[c].targetId)]
            /\ UNCHANGED likeResult
       ELSE /\ txn' = [txn EXCEPT ![c] = IdleTxn]
            /\ likeResult' = [likeResult EXCEPT ![c] =
                   [NoResult EXCEPT !.error = NotFoundError(txn[c].targetType)]]
    /\ UNCHANGED <<newsletters, comments, likes, obs, nextId, opCount>>
    /\ UNCHANGED <<commentVars, ingestVars, extVars>>

\* SELECT id FROM likes WHERE "userId" = $1 AND "targetId" = $2 AND "targetType" = $3
\* (fetchrow: any one of the matching rows)
SelectLike(c) ==
    /\ txn[c].pc = "selectLike"
    /\ LET rows == LikeRows(txn[c].userId, txn[c].targetType, txn[c].targetId) IN
       IF rows = {}
       THEN txn' = [txn EXCEPT ![c].pc = "insert", ![c].existing = 0]
       ELSE \E l \in rows : txn' = [txn EXCEPT ![c].pc = "delete", ![c].existing = l.id]
    /\ UNCHANGED <<newsletters, comments, likes, likeResult, obs, nextId, opCount>>
    /\ UNCHANGED <<commentVars, ingestVars, extVars>>

\* DELETE FROM likes WHERE id = $1; waits while another open transaction
\* has deleted the row, and removes nothing when the row is gone by then
DeleteLike(c) ==
    /\ txn[c].pc = "delete"
    /\ ~ \E d \in Conns \ {c} : txn[d].deleted /\ txn[d].existing = txn[c].existing
    /\ txn' = [txn EXCEPT ![c].pc = "update",
                          ![c].deleted = (\E l \in likes : l.id = txn[c].existing)]
    /\ UNCHANGED <<newsletters, comments, likes, likeResult, obs, nextId, opCount>>
    /\ UNCHANGED <<commentVars, ingestVars, extVars>>

\* like_id = str(uuid.uuid4()); INSERT INTO likes ...
InsertLike(c) ==
    /\ txn[c].pc = "insert"
    /\ txn' = [txn EXCEPT ![c].pc = "update", ![c].inserted = nextId]
    /\ nextId' = nextId + 1
    /\ UNCHANGED <<newsletters, comments, likes, likeResult, obs, opCount>>
    /\ UNCHANGED <<commentVars, ingestVars, extVars>>

\* UPDATE <table> SET "likeCount" = ... WHERE id = $1; takes the row lock of
\* the target, waiting for any open transaction that holds it
UpdateCount(c) ==
    /\ txn[c].pc = "update"
    /\ ~ \E d \in Conns \ {c} : /\ txn[d].rowLocked
                                /\ txn[d].targetType = txn[c].targetType
                                /\ txn[d].targetId = txn[c].targetId
    /\ txn' = [txn EXCEPT ![c].pc = "commit", ![c].rowLocked = TRUE]
    /\ UNCHANGED <<newsletters, comments, likes, likeResult, obs, nextId, opCount>>
    /\ UNCHANGED <<commentVars, ingestVars, extVars>>

\* the count the UPDATE of this transaction writes
WrittenCount(t) ==
    IF t.existing # 0 THEN DecrementedCount(StoredLikeCount(t.targetType, t.targetId))
    ELSE IncrementedCount(StoredLikeCount(t.targetType, t.targetId))

\* the dict the toggle returns
ToggleResult(t) ==
    [success |-> TRUE, error |-> "", targetId |-> t.targetId,
     isLiked |-> (t.existing = 0),
     likeCount |-> IF t.existing # 0 THEN ReportedCountAfterUnlike(t.snap)
                   ELSE ReportedCountAfterLike(t.snap),
     userId |-> t.userId]

\* leaving the transaction block: the writes commit and the locks are released
Commit(c) ==
    /\ txn[c].pc = "commit"
    /\ LET t == txn[c]
           removed == IF t.deleted THEN {l \in likes : l.id = t.existing} ELSE {}
           added == IF t.inserted # 0
                    THEN {[id |-> t.inserted, userId |-> t.userId,
                           targetId |-> t.targetId, targetType |-> t.targetType]}
                    ELSE {}
           res == ToggleResult(t)
       IN /\ likes' = (likes \ removed) \cup added
          /\ IF t.targetType = "NEWSLETTER"
             THEN /\ newsletters' = [newsletters EXCEPT ![t.targetId].likeCount = WrittenCount(t)]
                  /\ UNCHANGED comments
             ELSE /\ comments' = [comments EXCEPT ![t.targetId].likeCount = WrittenCount(t)]
                  /\ UNCHANGED newsletters
          /\ likeResult' = [likeResult EXCEPT ![c] = res]
          /\ obs' = ObsAtCommit(c, t.targetId, res.isLiked, res.likeCount)
    /\ txn' = [txn EXCEPT ![c] = IdleTxn]
    /\ UNCHANGED <<nextId, opCount>>
    /\ UNCHANGED <<commentVars, ingestVars, extVars>>

----------------------------------------------------------------------------
(* Values the other services start from *)

\* comment text, abstracted to the lengths the code looks at: leading
\* whitespace, the stripped text, trailing whitespace
Text(lead, core, trail) == [lead |-> lead, core |-> core, trail |-> trail]

NoCommentCall ==
    [made |-> FALSE, newsletterId |-> MissingId, parentId |-> None,
     content |-> Text(0, 0, 0), status |-> 0, success |-> FALSE, error |-> "",
     commentId |-> None, preCount |-> 0, preIds |-> {}]

EmptyMap == [k \in {} |-> 0]

\* Settings.document_pipeline_types
DefaultEnabledTypes == {"markdown", "html"}

\* hashlib.sha256(...).hexdigest(), taken as collision free: the digest
\* stands for what was hashed, the raw bytes or the string "bucket/object"
NoDigest == [of |-> "none", bucket |-> "", name |-> "", bytes |-> ""]

NoUploadCall ==
    [made |-> FALSE, bucket |-> "", name |-> "", bytes |-> "", content_type |-> None,
     up |-> "skipped", url |-> "skipped", raised |-> FALSE,
     pipelined |-> FALSE, primary |-> "skipped", fallback |-> "skipped",
     wasIndexed |-> FALSE,
     minio_upload |-> FALSE, es_indexed |-> FALSE, public_url |-> None,
     es_document_id |-> NoDigest, index_name |-> None, is_duplicate |-> FALSE,
     error |-> FALSE]

IngestUnused ==
    /\ objects = EmptyMap
    /\ minio_articles = EmptyMap
    /\ minio_documents = EmptyMap
    /\ enabled_types = DefaultEnabledTypes
    /\ uploadCall = NoUploadCall

NoStorageCall ==
    [made |-> FALSE, op |-> "", bucket |-> "", name |-> "", data |-> "",
     put |-> "skipped", es |-> "skipped", returned |-> "", pre |-> EmptyMap]

StorageUnused ==
    /\ files_index = {}
    /\ storageCall = NoStorageCall

\* Optional[str]: None, or a string written as the sequence of its pieces,
\* each piece a space or a word
NoneStr == [null |-> TRUE, s |-> <<>>]

Str(s) == [null |-> FALSE, s |-> s]

\* Optional[List[str]]
NoneList == [null |-> TRUE, items |-> <<>>]

List(items) == [null |-> FALSE, items |-> items]

\* Optional[int]: None is written -1 (the request model admits only ge=0)
NoneInt == -1

NoSearchArgs ==
    [op |-> "", query |-> NoneStr, categories |-> NoneList, tags |-> NoneList,
     article_type |-> None, date_from |-> None, date_to |-> None,
     min_wordcount |-> NoneInt, max_wordcount |-> NoneInt,
     sort_by |-> "_score", highlight |-> FALSE, es |-> "ok"]

NoSearchBody ==
    [source_excludes |-> {},
     query |-> [kind |-> "", must |-> <<>>, filter |-> <<>>],
     sort |-> <<>>, highlight |-> ""]

NoSearchCall ==
    [made |-> FALSE, body |-> NoSearchBody, success |-> FALSE,
     query |-> NoneStr, original_query |-> NoneStr]

SearchUnused ==
    /\ searchArgs = NoSearchArgs
    /\ searchCall = NoSearchCall

\* a key that a dict does not hold (str / int valued)
Absent == "<absent>"

AbsentInt == -1

NoArticle == [category |-> Absent, like_count |-> AbsentInt, metadata_author |-> Absent]

NoDetailArgs ==
    [article_id |-> "", es |-> "missing", source |-> NoArticle,
     pg |-> "none", row |-> NoArticle]

NoDetailCall ==
    [made |-> FALSE, success |-> FALSE, error |-> "", article |-> NoArticle, status |-> 0]

DetailUnused ==
    /\ detailArgs = NoDetailArgs
    /\ detailCall = NoDetailCall

BehaviorUnused == user_behaviors = <<>>

\* no instance (instances are numbered from 1 in order of construction)
NoInstance == 0

NoFactoryCall ==
    [op |-> "", arg |-> None, pre |-> EmptyMap, raised |-> "", result |-> NoInstance]

\* a process configured for MinIO, as it stands once storage_factory is imported
FactoryUnused ==
    /\ factoryEnv = [storage_type |-> "minio", oss_available |-> TRUE]
    /\ instances = [k \in {"minio"} |-> 1]
    /\ service_cache = 1
    /\ instanceCount = 1
    /\ factoryCall = NoFactoryCall

LateUnused == FactoryUnused

ExtUnused ==
    /\ StorageUnused
    /\ SearchUnused
    /\ DetailUnused
    /\ BehaviorUnused
    /\ LateUnused

----------------------------------------------------------------------------
(* Specification of the like service under concurrent requests *)

CommentRow(user, target, parent, len, likeCount) ==
    [userId |-> user, targetId |-> target, targetType |-> "NEWSLETTER",
     parentId |-> parent, content |-> len, likeCount |-> likeCount,
     status |-> "PUBLISHED"]

InitLike ==
    /\ \E k \in 0..MaxInitLikes :
          newsletters = [n \in NewsletterIds |-> [likeCount |-> k, commentCount |-> 1]]
    /\ \E k \in 0..MaxInitLikes :
          comments = [i \in CommentIds |-> CommentRow(DefaultUser, "n1", None, 1, k)]
    /\ likes = {}
    /\ txn = [c \in Conns |-> IdleTxn]
    /\ likeResult = [c \in Conns |-> NoResult]
    /\ obs = [i \in NewsletterIds \cup CommentIds |-> NoObs]
    /\ nextId = 1
    /\ opCount = 0
    /\ commentCall = NoCommentCall
    /\ IngestUnused
    /\ ExtUnused

NextLike ==
    \/ \E c \in Conns, i \in NewsletterIds \cup {MissingId}, u \in UserInputs :
          toggle_newsletter_like(c, i, u)
    \/ \E c \in Conns, i \in CommentIds \cup {MissingId}, u \in UserInputs :
          toggle_comment_like(c, i, u)
    \/ \E c \in Conns : SelectTarget(c)
    \/ \E c \in Conns : SelectLike(c)
    \/ \E c \in Conns : DeleteLike(c)
    \/ \E c \in Conns : InsertLike(c)
    \/ \E c \in Conns : UpdateCount(c)
    \/ \E c \in Conns : Commit(c)

SpecLike == InitLike /\ [][NextLike]_vars

----------------------------------------------------------------------------
(* Properties of the like service *)

TargetTypeOf(id) == IF id \in NewsletterIds THEN "NEWSLETTER" ELSE "COMMENT"

\* C1: two consecutive toggles by one user on one target, with no other
\* operation on the target in between, restore the liked-state and the
\* likeCount from before the first toggle; a single undisturbed toggle
\* reports the flipped isLiked and a count changed by exactly one.
C1_ToggleRoundTrip ==
    \A i \in DOMAIN obs :
       /\ obs[i].pair =>
             /\ Liked(obs[i].lastUser, TargetTypeOf(i), i) = obs[i].pairLiked
             /\ StoredLikeCount(TargetTypeOf(i), i) = obs[i].pairCount
       /\ obs[i].last =>
             /\ obs[i].lastIsLiked = ~ obs[i].lastPreLiked
             /\ obs[i].lastCount = IF obs[i].lastIsLiked THEN obs[i].lastPreCount + 1
                                   ELSE obs[i].lastPreCount - 1

\* C2: at most one like row exists per (userId, targetId, targetType) in
\* every reachable state, under every interleaving of concurrent toggles.
C2_OneLikePerUserAndTarget ==
    \A l1 \in likes : \A l2 \in likes :
       (l1.userId = l2.userId /\ l1.targetId = l2.targetId
          /\ l1.targetType = l2.targetType) => l1 = l2

\* the like service started on tables whose counts agree with the like rows:
\* nothing is liked yet
InitLikeCount ==
    /\ InitLike
    /\ \A n \in NewsletterIds : newsletters[n].likeCount = 0
    /\ \A i \in CommentIds : comments[i].likeCount = 0

SpecLikeCount == InitLikeCount /\ [][NextLike]_vars

\* the like rows that target one newsletter or comment
LikesOf(targetType, id) ==
    {l \in likes : l.targetId = id /\ l.targetType = targetType}

\* C25: in every reachable state, under every interleaving of concurrent
\* toggles, the likeCount of a newsletter or comment equals the number of
\* like rows that target it and is not negative.
C25_LikeCountEqualsLikeRows ==
    /\ \A n \in NewsletterIds :
          /\ newsletters[n].likeCount = Cardinality(LikesOf("NEWSLETTER", n))
          /\ newsletters[n].likeCount >= 0
    /\ \A i \in CommentIds :
          /\ comments[i].likeCount = Cardinality(LikesOf("COMMENT", i))
          /\ comments[i].likeCount >= 0

\* C26: the likeCount a successful toggle returns is the likeCount stored
\* for its target by the commit of that toggle's transaction.
C26_ReturnedCountIsStoredCount ==
    [][\A c \in Conns :
          (txn[c].pc = "commit" /\ txn'[c].pc = "idle") =>
             likeResult'[c].likeCount =
                IF txn[c].targetType = "NEWSLETTER"
                THEN newsletters'[txn[c].targetId].likeCount
                ELSE comments'[txn[c].targetId].likeCount]_vars

----------------------------------------------------------------------------
(* Comment creation: POST /newsletters/{newsletter_id}/comments *)

MaxContentLength == 1000

\* len(content)
ContentLen(content) == content.lead + content.core + content.trail

\* len(content.strip())
StrippedLen(content) == content.core

\* the texts a request is tried with: empty, one blank, one letter, a text of
\* exactly 1000 characters, one of 1001, and 1000 characters after a blank
Contents ==
    {Text(0, 0, 0), Text(1, 0, 0), Text(0, 1, 0),
     Text(0, MaxContentLength, 0), Text(0, MaxContentLength + 1, 0),
     Text(1, MaxContentLength, 0)}

\* fresh uuid4 values for comment ids
CommentIdPool == <<"c1", "c2", "c3", "c4", "c5", "c6", "c7", "c8">>

FreshCommentId == CommentIdPool[Cardinality(DOMAIN comments) + 1]

ParentInputs == {None, "", "c1", "c2", MissingId}

\* the error strings of the service; the first two are the Chinese messages
\* "comment content bu-neng be empty" and "comment content bu-neng exceed
\* 1000 characters", the only ones that contain the word bu-neng
ErrEmptyContent == "content must not be empty"
ErrContentTooLong == "content must not exceed 1000 characters"
ErrNewsletterNotFound == "Newsletter not found"
ErrParentNotFound == "Parent comment not found"
ErrUpstream == "upstream database error"

\* `"bu-neng" in result.get("error", "")`
ContainsBuNeng(error) == error \in {ErrEmptyContent, ErrContentTooLong}

\* CommentCreateRequest: content: str = Field(..., min_length=1, max_length=1000);
\* a request that fails it is answered 422 by the framework
RequestModelRejects(content) ==
    ContentLen(content) < 1 \/ ContentLen(content) > MaxContentLength

\* the content checks at the head of CommentService.create_comment
ContentError(content) ==
    IF ContentLen(content) = 0 \/ StrippedLen(content) = 0 THEN ErrEmptyContent
    ELSE IF ContentLen(content) > MaxContentLength THEN ErrContentTooLong
    ELSE ""

\* `if parent_id:`
ParentGiven(parent_id) == parent_id \notin {None, ""}

ParentMissing_Unchecked(parent_id) == FALSE

\* `if parent_id:` ... `if not parent_comment:`
ParentMissing(parent_id) ==
    ParentGiven(parent_id) /\ parent_id \notin DOMAIN comments

CommentCountAfter_Always(count, parent_id) == count + 1

\* `if not parent_id:` UPDATE newsletters SET "commentCount" = "commentCount" + 1
CommentCountAfter(count, parent_id) ==
    IF ~ ParentGiven(parent_id) THEN count + 1 ELSE count

\* status_code=400 if "bu-neng" in error else 404
StatusOfFailure(error) == IF ContainsBuNeng(error) THEN 400 ELSE 404

\* where the database lets the call down: nowhere, when the pool is obtained
\* (outside the try block), at the first statement, or at the INSERT
FailPoints == {"none", "pool", "select", "insert"}

\* the service result: the error of the first check that fails, "" on success
ServiceError(newsletter_id, content, parent_id, failAt) ==
    IF ContentError(content) # "" THEN ContentError(content)
    ELSE IF failAt = "select" THEN ErrUpstream
    ELSE IF newsletter_id \notin DOMAIN newsletters THEN ErrNewsletterNotFound
    ELSE IF ParentMissing(parent_id) THEN ErrParentNotFound
    ELSE IF failAt = "insert" THEN ErrUpstream
    ELSE ""

\* the status the endpoint answers with
ResponseStatus(newsletter_id, content, parent_id, failAt) ==
    IF RequestModelRejects(content) THEN 422
    ELSE IF ContentError(content) # "" THEN StatusOfFailure(ContentError(content))
    ELSE IF failAt = "pool" THEN 500
    ELSE IF ServiceError(newsletter_id, content, parent_id, failAt) # ""
         THEN StatusOfFailure(ServiceError(newsletter_id, content, parent_id, failAt))
    ELSE 200

\* the endpoint create_comment with CommentService.create_comment inside it
create_comment(newsletter_id, content, parent_id, user_id, failAt) ==
    /\ opCount < MaxCommentOps
    /\ opCount' = opCount + 1
    /\ LET status == ResponseStatus(newsletter_id, content, parent_id, failAt)
           error == IF status \in {422, 500} THEN ""
                    ELSE ServiceError(newsletter_id, content, parent_id, failAt)
           id == FreshCommentId
           call == [made |-> TRUE, newsletterId |-> newsletter_id,
                    parentId |-> parent_id, content |-> content,
                    status |-> status, success |-> (status = 200), error |-> error,
                    commentId |-> IF status = 200 THEN id ELSE None,
                    preCount |-> IF newsletter_id \in DOMAIN newsletters
                                 THEN newsletters[newsletter_id].commentCount ELSE 0,
                    preIds |-> DOMAIN comments]
       IN /\ commentCall' = call
          /\ IF status = 200
             THEN /\ comments' =
                        [i \in DOMAIN comments \cup {id} |->
                            IF i = id
                            THEN CommentRow(EffectiveUser(user_id), newsletter_id,
                                            parent_id, ContentLen(content), 0)
                            ELSE comments[i]]
                  /\ newsletters' =
                        [newsletters EXCEPT ![newsletter_id].commentCount =
                            CommentCountAfter(@, parent_id)]
             ELSE UNCHANGED <<newsletters, comments>>
    /\ UNCHANGED <<likes, nextId, likeVars, ingestVars, extVars>>

InitComment ==
    /\ newsletters = [n \in NewsletterIds |-> [likeCount |-> 0, commentCount |-> 0]]
    /\ comments = EmptyMap
    /\ likes = {}
    /\ txn = [c \in Conns |-> IdleTxn]
    /\ likeResult = [c \in Conns |-> NoResult]
    /\ obs = [i \in {} |-> NoObs]
    /\ nextId = 1
    /\ opCount = 0
    /\ commentCall = NoCommentCall
    /\ IngestUnused
    /\ ExtUnused

NextComment ==
    \E n \in NewsletterIds \cup {MissingId}, t \in Contents, p \in ParentInputs,
       u \in UserInputs, f \in FailPoints :
          create_comment(n, t, p, u, f)

SpecComment == InitComment /\ [][NextComment]_vars

C4_CountOnlyTopLevel ==
    (commentCall.made /\ commentCall.success) =>
       newsletters[commentCall.newsletterId].commentCount =
          IF ParentGiven(commentCall.parentId) THEN commentCall.preCount
          ELSE commentCall.preCount + 1

C4_Witness ==
    /\ commentCall.made /\ commentCall.success
    /\ commentCall.parentId \in DOMAIN comments
    /\ newsletters[commentCall.newsletterId].commentCount = commentCall.preCount
    /\ commentCall.preCount = 1

\* C5: content that is empty, whitespace-only or longer than 1000 characters
\* is rejected with HTTP status 400 and creates no comment.
C5_InvalidContentIs400 ==
    (commentCall.made /\ (ContentLen(commentCall.content) = 0
                            \/ StrippedLen(commentCall.content) = 0
                            \/ ContentLen(commentCall.content) > MaxContentLength))
    => /\ commentCall.status = 400
       /\ DOMAIN comments = commentCall.preIds

----------------------------------------------------------------------------
(* Document ingestion: DocumentPipelineService and ArticleProcessingService *)

MaxUploads == 2       \* process_upload calls issued in one behaviour

\* hashlib.sha256(file_content).hexdigest()
Sha256OfBytes(bytes) == [of |-> "bytes", bucket |-> "", name |-> "", bytes |-> bytes]

\* hashlib.sha256(f"{bucket_name}/{object_name}".encode()).hexdigest()
Sha256OfPath(bucket, name) == [of |-> "path", bucket |-> bucket, name |-> name, bytes |-> ""]

\* file names, written stem + suffix; Path(filename).suffix is the part
\* from the last dot on
FileNames == {"a.md", "b.txt", "c.html", "d.MD"}

Suffix(name) ==
    CASE name = "a.md" -> ".md"
      [] name = "b.txt" -> ".txt"
      [] name = "c.html" -> ".html"
      [] name = "d.MD" -> ".MD"
      [] OTHER -> ""

\* str.lower() on the suffixes in use
Lower(ext) == IF ext = ".MD" THEN ".md" ELSE ext

Buckets == {"docs"}
ByteContents == {"x", "y"}
ContentTypes == {None, "text/markdown", "text/plain"}

\* DocumentPipelineService.CONFIGURABLE_DOCUMENT_TYPES
CONFIGURABLE_DOCUMENT_TYPES ==
    [markdown |-> {".md", ".markdown"}, html |-> {".html", ".htm"},
     text |-> {".txt"}, rst |-> {".rst"}]

\* DocumentPipelineService.MIME_TYPE_MAP, as the set of its items
MIME_TYPE_MAP ==
    {<<"text/markdown", "markdown">>, <<"text/x-markdown", "markdown">>,
     <<"text/html", "html">>, <<"application/xhtml+xml", "html">>,
     <<"text/plain", "text">>, <<"text/x-rst", "rst">>}

MimeKnown(content_type) == \E e \in MIME_TYPE_MAP : e[1] = content_type

MimeType(content_type) == (CHOOSE e \in MIME_TYPE_MAP : e[1] = content_type)[2]

\* DocumentPipelineService.is_document_file
is_document_file(filename, content_type) ==
    LET file_ext == Lower(Suffix(filename)) IN
    IF \E t \in DOMAIN CONFIGURABLE_DOCUMENT_TYPES :
          t \in enabled_types /\ file_ext \in CONFIGURABLE_DOCUMENT_TYPES[t]
    THEN TRUE
    ELSE IF content_type # None /\ MimeKnown(content_type)
         THEN MimeType(content_type) \in enabled_types
         ELSE FALSE

\* metadata['format'] of DocumentPipelineService.extract_content; "" when no
\* branch is taken and the key stays unset
ExtractContentFormat(filename, content_type) ==
    LET file_ext == Lower(Suffix(filename)) IN
    IF file_ext \in {".md", ".markdown"} \/ content_type \in {"text/markdown", "text/x-markdown"}
    THEN "markdown"
    ELSE IF file_ext \in {".html", ".htm"} \/ content_type \in {"text/html", "application/xhtml+xml"}
    THEN "html"
    ELSE IF file_ext \in {".txt"} \/ content_type = "text/plain"
    THEN "text"
    ELSE IF file_ext \in {".rst"}
    THEN "rst"
    ELSE ""

\* result['format'] of ArticleProcessingService.extract_text_content
ExtractTextFormat(filename, content_type) ==
    LET file_ext == Lower(Suffix(filename)) IN
    IF file_ext \in {".md", ".markdown"} \/ content_type \in {"text/markdown", "text/x-markdown"}
    THEN "markdown"
    ELSE IF file_ext \in {".html", ".htm"} \/ content_type \in {"text/html", "application/xhtml+xml"}
    THEN "html"
    ELSE IF file_ext \in {".txt"} \/ content_type = "text/plain"
    THEN "text"
    ELSE ""

\* extracted_data['metadata'].get('format', 'unknown')
DocumentTypeOf(format) == IF format = "" THEN "unknown" ELSE format

\* the ceiling of the slices [:50000] in extract_content
MaxStoredContent == 50000

Min(a, b) == IF a <= b THEN a ELSE b

\* len(plain_text) for the byte contents in use: one text exactly at the
\* ceiling, one a character above it
PlainTextLen(bytes) == IF bytes = "x" THEN MaxStoredContent ELSE MaxStoredContent + 1

\* the length of the text an extraction yields: plain_text stays '' when no
\* format branch is taken
ExtractedLen(format, bytes) == IF format = "" THEN 0 ELSE PlainTextLen(bytes)

\* len(plain_text[:50000])
Truncated(len) == Min(len, MaxStoredContent)

\* the document process_and_index writes to minio_articles: its content is
\* extracted['content'] as extract_text_content returned it, and it has no
\* content_full field
ArticleDocument(bucket, name, bytes, content_type) ==
    [id |-> Sha256OfPath(bucket, name), bucket_name |-> bucket, object_name |-> name,
     content_hash |-> Sha256OfBytes(bytes),
     file_type |-> ExtractTextFormat(name, content_type),
     content_len |-> ExtractedLen(ExtractTextFormat(name, content_type), bytes),
     has_content_full |-> FALSE, content_full_len |-> 0,
     kind |-> "article"]

\* the document the fallback path writes to document_pipeline_index:
\* content is plain_text[:50000], content_full is plain_text or None
PipelineDocument(bucket, name, bytes, content_type) ==
    LET len == ExtractedLen(ExtractContentFormat(name, content_type), bytes) IN
    [id |-> Sha256OfBytes(bytes), bucket_name |-> bucket, object_name |-> name,
     content_hash |-> Sha256OfBytes(bytes),
     file_type |-> DocumentTypeOf(ExtractContentFormat(name, content_type)),
     content_len |-> Truncated(len),
     has_content_full |-> len <= MaxStoredContent,
     content_full_len |-> IF len <= MaxStoredContent THEN len ELSE 0,
     kind |-> "pipeline"]

\* doc_id of process_and_index
ArticleDocumentId(bucket, name, bytes) == Sha256OfPath(bucket, name)

FallbackDocumentId_ByPath(bucket, name, bytes) == Sha256OfPath(bucket, name)

\* document_id=extracted_data['content_hash'] of the fallback write
FallbackDocumentId(bucket, name, bytes) == Sha256OfBytes(bytes)

\* article_result.get('is_duplicate', False): process_and_index returns no such key
ReportedIsDuplicate(alreadyIndexed) == FALSE

\* an index or object store with one entry written (same id: overwritten)
Put(map, key, value) ==
    [k \in DOMAIN map \cup {key} |-> IF k = key THEN value ELSE map[k]]

\* MinioService.upload_file, when it does not raise: the object is stored
\* under (bucket, key), replacing what was there
upload_file(bucket_name, object_name, file_data) ==
    Put(objects, <<bucket_name, object_name>>, file_data)

\* ElasticsearchService.index_document, when it does not raise: the document
\* is stored in the index under document_id, replacing what was there
index_document(index, document, document_id) == Put(index, document_id, document)

\* what the remote calls of one process_upload do: the storage upload, the
\* public URL lookup (with the presigned URL as its fallback), the write to
\* minio_articles and the write to document_pipeline_index
Outcomes ==
    [up : {"raise"}, url : {"skipped"}, primary : {"skipped"}, fallback : {"skipped"}]
    \cup [up : {"ok"}, url : {"fail"}, primary : {"skipped"}, fallback : {"skipped"}]
    \cup [up : {"ok"}, url : {"public", "presigned"}, primary : {"ok"}, fallback : {"skipped"}]
    \cup [up : {"ok"}, url : {"public", "presigned"}, primary : {"fail"}, fallback : {"ok", "raise"}]
    \cup [up : {"ok"}, url : {"public", "presigned"}, primary : {"raise"}, fallback : {"skipped"}]

\* the step of process_upload at which an exception is raised, "none" when
\* every step that runs returns
RaisedAt(o, pipelined) ==
    IF o.up = "raise" THEN "up"
    ELSE IF o.url = "fail" THEN "url"
    ELSE IF pipelined /\ o.primary = "raise" THEN "primary"
    ELSE IF pipelined /\ o.primary = "fail" /\ o.fallback = "raise" THEN "fallback"
    ELSE "none"

\* only the upload is inside the try block
Escapes_AfterUpload(step) == step \notin {"none", "up"}

\* an exception raised at the step leaves process_upload: every step is
\* inside `try: ... except Exception as e: result['error'] = str(e)`
Escapes(step) == step \notin {"none", "up", "url", "primary", "fallback"}

\* DocumentPipelineService.process_upload
process_upload(bucket_name, file_name, file_content, content_type, o) ==
    /\ opCount < MaxUploads
    /\ opCount' = opCount + 1
    /\ LET uploaded == o.up = "ok"
           urlOk == uploaded /\ o.url # "fail"
           pipelined == urlOk /\ is_document_file(file_name, content_type)
           primaryOk == pipelined /\ o.primary = "ok"
           fallbackTried == pipelined /\ o.primary = "fail"
           fallbackOk == fallbackTried /\ o.fallback = "ok"
           articleId == ArticleDocumentId(bucket_name, file_name, file_content)
           fallbackId == FallbackDocumentId(bucket_name, file_name, file_content)
           wasIndexed == /\ articleId \in DOMAIN minio_articles
                         /\ minio_articles[articleId].content_hash = Sha256OfBytes(file_content)
       IN /\ objects' = IF uploaded
                        THEN Put(objects, <<bucket_name, file_name>>, file_content)
                        ELSE objects
          /\ minio_articles' =
                IF primaryOk
                THEN Put(minio_articles, articleId,
                         ArticleDocument(bucket_name, file_name, file_content, content_type))
                ELSE minio_articles
          /\ minio_documents' =
                IF fallbackOk
                THEN index_document(minio_documents,
                         PipelineDocument(bucket_name, file_name, file_content, content_type),
                         fallbackId)
                ELSE minio_documents
          /\ uploadCall' =
                [made |-> TRUE, bucket |-> bucket_name, name |-> file_name,
                 bytes |-> file_content, content_type |-> content_type,
                 up |-> o.up, url |-> IF uploaded THEN o.url ELSE "skipped",
                 raised |-> Escapes(RaisedAt(o, pipelined)),
                 pipelined |-> pipelined,
                 primary |-> IF pipelined THEN o.primary ELSE "skipped",
                 fallback |-> IF fallbackTried THEN o.fallback ELSE "skipped",
                 wasIndexed |-> wasIndexed,
                 minio_upload |-> uploaded,
                 es_indexed |-> primaryOk \/ fallbackOk,
                 public_url |-> IF urlOk THEN o.url ELSE None,
                 es_document_id |-> IF primaryOk THEN articleId
                                    ELSE IF fallbackOk THEN fallbackId ELSE NoDigest,
                 index_name |-> IF primaryOk THEN "minio_articles" ELSE None,
                 is_duplicate |-> primaryOk /\ ReportedIsDuplicate(wasIndexed),
                 error |-> RaisedAt(o, pipelined) # "none"]
    /\ UNCHANGED <<pgVars, likeVars, commentVars, enabled_types, extVars>>

InitIngest ==
    /\ newsletters = [n \in NewsletterIds |-> [likeCount |-> 0, commentCount |-> 0]]
    /\ comments = EmptyMap
    /\ likes = {}
    /\ txn = [c \in Conns |-> IdleTxn]
    /\ likeResult = [c \in Conns |-> NoResult]
    /\ obs = [i \in {} |-> NoObs]
    /\ nextId = 1
    /\ opCount = 0
    /\ commentCall = NoCommentCall
    /\ objects = EmptyMap
    /\ minio_articles = EmptyMap
    /\ minio_documents = EmptyMap
    /\ enabled_types = DefaultEnabledTypes
    /\ uploadCall = NoUploadCall
    /\ ExtUnused

NextIngest ==
    \E b \in Buckets, n \in FileNames, c \in ByteContents, t \in ContentTypes, o \in Outcomes :
       process_upload(b, n, c, t, o)

SpecIngest == InitIngest /\ [][NextIngest]_vars

----------------------------------------------------------------------------
(* Properties of the ingestion pipeline *)

\* every document held by the two search indexes
IndexedDocuments ==
    {minio_articles[i] : i \in DOMAIN minio_articles}
    \cup {minio_documents[i] : i \in DOMAIN minio_documents}

\* the document type "decided by extension first, by declared MIME type only
\* when the extension matches no known type"; "" when neither names a type
ExtensionFirstType(filename, content_type) ==
    LET file_ext == Lower(Suffix(filename)) IN
    IF \E t \in DOMAIN CONFIGURABLE_DOCUMENT_TYPES : file_ext \in CONFIGURABLE_DOCUMENT_TYPES[t]
    THEN CHOOSE t \in DOMAIN CONFIGURABLE_DOCUMENT_TYPES : file_ext \in CONFIGURABLE_DOCUMENT_TYPES[t]
    ELSE IF MimeKnown(content_type) THEN MimeType(content_type)
    ELSE ""

\* C6: after any sequence of process_upload calls no two documents in the
\* search indexes carry the same content_hash.
C6_NoTwoDocumentsShareContentHash ==
    \A d1 \in IndexedDocuments : \A d2 \in IndexedDocuments :
       d1.content_hash = d2.content_hash => d1 = d2

\* C7: indexing the same bucket, object name and bytes a second time
\* succeeds and reports is_duplicate = true, which process_upload forwards.
C7_ReingestionReportsDuplicate ==
    (uploadCall.made /\ uploadCall.primary = "ok" /\ uploadCall.wasIndexed)
    => (uploadCall.es_indexed /\ uploadCall.is_duplicate)

\* C8: a file whose document type (extension first, MIME type only when the
\* extension matches no known type) is not among the configured types is
\* never sent into the content pipeline by process_upload.
C8_UnconfiguredTypeNeverPipelined ==
    (uploadCall.made
       /\ ExtensionFirstType(uploadCall.name, uploadCall.content_type) \notin enabled_types)
    => ~ uploadCall.pipelined

\* C9: a supported filename extension determines the extracted format
\* whatever MIME type is declared, in extract_content (fallback documents)
\* and in extract_text_content (article documents).
C9_ExtensionDecidesFormat ==
    \A d \in IndexedDocuments :
       LET file_ext == Lower(Suffix(d.object_name)) IN
       (\E t \in DOMAIN CONFIGURABLE_DOCUMENT_TYPES : file_ext \in CONFIGURABLE_DOCUMENT_TYPES[t])
       => d.file_type = ExtensionFirstType(d.object_name, None)

C12_StoredContentWithinCeiling ==
    \A d \in IndexedDocuments :
       /\ d.content_len <= MaxStoredContent
       /\ d.has_content_full => d.content_full_len <= MaxStoredContent

C28_UploadNeverRaisesNorRollsBack ==
    uploadCall.made =>
       /\ ~ uploadCall.raised
       /\ uploadCall.es_indexed => uploadCall.minio_upload
       /\ uploadCall.up = "raise" =>
             /\ ~ uploadCall.minio_upload
             /\ ~ uploadCall.es_indexed
             /\ uploadCall.error
       /\ (uploadCall.up = "ok"
             /\ (uploadCall.url = "fail" \/ uploadCall.primary \in {"fail", "raise"})) =>
             /\ uploadCall.minio_upload
             /\ <<uploadCall.bucket, uploadCall.name>> \in DOMAIN objects
             /\ objects[<<uploadCall.bucket, uploadCall.name>>] = uploadCall.bytes
       /\ (uploadCall.up = "ok"
             /\ (uploadCall.url = "fail" \/ uploadCall.primary = "raise"
                   \/ uploadCall.fallback = "raise")) =>
             /\ uploadCall.error
             /\ ~ uploadCall.es_indexed

\* an upload that succeeded, followed by an indexing that raised
C28_Witness ==
    /\ uploadCall.made
    /\ uploadCall.up = "ok" /\ uploadCall.primary = "raise"
    /\ uploadCall.minio_upload /\ uploadCall.error
    /\ <<uploadCall.bucket, uploadCall.name>> \in DOMAIN objects

----------------------------------------------------------------------------
(* Object storage with its search-index side effect: OSSService *)

ObjectNames == {"a.md", "b.txt"}

\* what the two remote calls of one storage operation do: the OSS call
\* (put_object / delete_object) and the Elasticsearch call that follows it
RemoteResults == {"ok", "raise"}

\* a map with one key removed
Remove(map, key) == [k \in DOMAIN map \ {key} |-> map[k]]

\* ElasticsearchService.index_file, when it does not raise: the file is
\* indexed under (bucket, key)
index_file(bucket_name, object_name) == files_index \cup {<<bucket_name, object_name>>}

\* ElasticsearchService.delete_file, when it does not raise: the entry of
\* (bucket, key) is removed
delete_file(bucket_name, object_name) == files_index \ {<<bucket_name, object_name>>}

StorageReturn_Propagating(put, es) ==
    IF put = "raise" \/ es = "raise" THEN "exception" ELSE "result"

\* how upload_file / delete_object end: `except OssError` re-raises a failed
\* OSS call, the inner `except Exception` discards a failed side effect
StorageReturn(put, es) ==
    IF put = "raise" THEN "exception" ELSE "result"

\* OSSService.upload_file
oss_upload_file(bucket_name, object_name, file_data, put, es) ==
    /\ objects' = IF put = "ok"
                  THEN Put(objects, <<bucket_name, object_name>>, file_data)
                  ELSE objects
    /\ files_index' = IF put = "ok" /\ es = "ok"
                      THEN index_file(bucket_name, object_name)
                      ELSE files_index
    /\ storageCall' =
          [made |-> TRUE, op |-> "upload_file", bucket |-> bucket_name,
           name |-> object_name, data |-> file_data, put |-> put,
           es |-> IF put = "ok" THEN es ELSE "skipped",
           returned |-> StorageReturn(put, IF put = "ok" THEN es ELSE "skipped"),
           pre |-> objects]
    /\ UNCHANGED <<pgVars, likeVars, opCount, commentVars, searchVars, detailVars>>
    /\ UNCHANGED <<behaviorVars, lateVars>>
    /\ UNCHANGED <<minio_articles, minio_documents, enabled_types, uploadCall>>

\* OSSService.delete_object
oss_delete_object(bucket_name, object_name, put, es) ==
    /\ objects' = IF put = "ok"
                  THEN Remove(objects, <<bucket_name, object_name>>)
                  ELSE objects
    /\ files_index' = IF put = "ok" /\ es = "ok"
                      THEN delete_file(bucket_name, object_name)
                      ELSE files_index
    /\ storageCall' =
          [made |-> TRUE, op |-> "delete_object", bucket |-> bucket_name,
           name |-> object_name, data |-> "", put |-> put,
           es |-> IF put = "ok" THEN es ELSE "skipped",
           returned |-> StorageReturn(put, IF put = "ok" THEN es ELSE "skipped"),
           pre |-> objects]
    /\ UNCHANGED <<pgVars, likeVars, opCount, commentVars, searchVars, detailVars>>
    /\ UNCHANGED <<behaviorVars, lateVars>>
    /\ UNCHANGED <<minio_articles, minio_documents, enabled_types, uploadCall>>

InitStorage ==
    /\ newsletters = [n \in NewsletterIds |-> [likeCount |-> 0, commentCount |-> 0]]
    /\ comments = EmptyMap
    /\ likes = {}
    /\ txn = [c \in Conns |-> IdleTxn]
    /\ likeResult = [c \in Conns |-> NoResult]
    /\ obs = [i \in {} |-> NoObs]
    /\ nextId = 1
    /\ opCount = 0
    /\ commentCall = NoCommentCall
    /\ IngestUnused
    /\ ExtUnused

NextStorage ==
    \/ \E b \in Buckets, n \in ObjectNames, d \in ByteContents,
          put \in RemoteResults, es \in RemoteResults :
          oss_upload_file(b, n, d, put, es)
    \/ \E b \in Buckets, n \in ObjectNames, put \in RemoteResults, es \in RemoteResults :
          oss_delete_object(b, n, put, es)

SpecStorage == InitStorage /\ [][NextStorage]_vars

\* C11: an upload_file or delete_object whose object-storage call succeeded
\* returns its result to the caller even when the Elasticsearch side effect
\* raises, and the object store holds exactly what the storage call made of
\* it: the uploaded bytes under the key (or no object under the key), every
\* other object as before.
C11_SideEffectFailureSwallowed ==
    (storageCall.made /\ storageCall.put = "ok")
    => LET key == <<storageCall.bucket, storageCall.name>> IN
       /\ storageCall.returned = "result"
       /\ storageCall.op = "upload_file" =>
             /\ key \in DOMAIN objects
             /\ objects[key] = storageCall.data
       /\ storageCall.op = "delete_object" => key \notin DOMAIN objects
       /\ DOMAIN objects \ {key} = DOMAIN storageCall.pre \ {key}
       /\ \A k \in DOMAIN objects \ {key} : objects[k] = storageCall.pre[k]

C11_Witness ==
    /\ storageCall.made /\ storageCall.put = "ok" /\ storageCall.es = "raise"
    /\ storageCall.returned = "result"
    /\ storageCall.op = "delete_object"
    /\ <<storageCall.bucket, storageCall.name>> \in DOMAIN storageCall.pre
    /\ <<storageCall.bucket, storageCall.name>> \in files_index
    /\ objects # EmptyMap

----------------------------------------------------------------------------
(* Query construction: NewsletterSearchService *)

SP == " "

\* str.lstrip / str.rstrip / str.strip on a string of pieces
RECURSIVE LStrip(_)
LStrip(s) == IF s = <<>> THEN s ELSE IF Head(s) = SP THEN LStrip(Tail(s)) ELSE s

RECURSIVE RStrip(_)
RStrip(s) ==
    IF s = <<>> THEN s
    ELSE IF s[Len(s)] = SP THEN RStrip(SubSeq(s, 1, Len(s) - 1)) ELSE s

Strip(s) == RStrip(LStrip(s))

\* " ".join(list)
RECURSIVE Join(_)
Join(list) ==
    IF list = <<>> THEN <<>>
    ELSE IF Len(list) = 1 THEN list[1]
    ELSE list[1] \o <<SP>> \o Join(Tail(list))

\* f"{a} {b}"
Spaced(a, b) == a \o <<SP>> \o b

\* truth value of an Optional[str] / Optional[List] / Optional[int]
StrTruthy_NotNone(o) == ~ o.null

StrTruthy(o) == ~ o.null /\ o.s # <<>>

ListTruthy(l) == ~ l.null /\ l.items # <<>>

IntTruthy(n) == n # NoneInt /\ n # 0

\* `x or ''`
OrEmpty(o) == IF StrTruthy(o) THEN o.s ELSE <<>>

\* [tag for tag in tags if tag and tag.strip()]
ValidTags(tags) == SelectSeq(tags.items, LAMBDA tag : tag # <<>> /\ Strip(tag) # <<>>)

\* "构建最终查询词": the query, then the categories, then the valid tags
FinalQuery(query, categories, tags) ==
    LET withCategories ==
            IF ListTruthy(categories)
            THEN Str(Strip(Spaced(OrEmpty(query), Join(categories.items))))
            ELSE query
    IN IF ListTruthy(tags) /\ ValidTags(tags) # <<>>
       THEN Str(Strip(Spaced(OrEmpty(withCategories), Join(ValidTags(tags)))))
       ELSE withCategories

\* one clause of bool.must / bool.filter
Clause(clause, field, value, gte, lte) ==
    [clause |-> clause, field |-> field, value |-> value, gte |-> gte, lte |-> lte]

\* the bool/should of multi_match and two match_phrase_prefix of search_articles
KeywordClause(q) == Clause("bool_should_multi_match", "", q, NoneInt, NoneInt)

\* the multi_match of search_with_filters
MultiMatchClause(q) == Clause("multi_match", "", q, NoneInt, NoneInt)

MatchAll == [kind |-> "match_all", must |-> <<>>, filter |-> <<>>]

\* "构建最终查询": match_all without clauses, a bool query otherwise
QueryBody(must_clauses, filter_clauses) ==
    IF must_clauses = <<>> /\ filter_clauses = <<>>
    THEN MatchAll
    ELSE [kind |-> "bool", must |-> must_clauses, filter |-> filter_clauses]

SortKey(field, order, missing) == [field |-> field, order |-> order, missing |-> missing]

\* `if final_query and final_query.strip()` of search_articles
ArticlesKeywordWanted(final_query) == StrTruthy(final_query) /\ Strip(final_query.s) # <<>>

\* `if final_query` of search_with_filters
FiltersKeywordWanted(final_query) == StrTruthy(final_query)

\* "添加排序" of search_articles: only post_date adds a sort
ArticlesSort(sort_by) ==
    IF sort_by = "post_date"
    THEN <<SortKey("publish_date", "desc", "_last"), SortKey("_score", "", "")>>
    ELSE <<>>

\* "添加排序" of search_with_filters: only size adds a sort
FiltersSort(sort_by) ==
    IF sort_by = "size" THEN <<SortKey("size", "desc", "")>> ELSE <<>>

\* the bool.filter clauses of search_with_filters: article_type and the
\* word-count range; date_from and date_to are not read
FilterClauses(a) ==
    (IF a.article_type \notin {None, ""}
     THEN <<Clause("term", "document_type", a.article_type, NoneInt, NoneInt)>>
     ELSE <<>>)
    \o (IF IntTruthy(a.min_wordcount) \/ IntTruthy(a.max_wordcount)
        THEN <<Clause("range", "size", "",
                      IF IntTruthy(a.min_wordcount) THEN a.min_wordcount * 10 ELSE NoneInt,
                      IF IntTruthy(a.max_wordcount) THEN a.max_wordcount * 10 ELSE NoneInt)>>
        ELSE <<>>)

\* search_body of search_articles
SearchArticlesBody(a) ==
    LET final_query == FinalQuery(a.query, a.categories, a.tags)
        must_clauses == IF ArticlesKeywordWanted(final_query)
                        THEN <<KeywordClause(final_query.s)>> ELSE <<>>
    IN [source_excludes |-> {"embeddings"},
        query |-> QueryBody(must_clauses, <<>>),
        sort |-> ArticlesSort(a.sort_by),
        highlight |-> IF a.highlight THEN "title,subtitle,content" ELSE ""]

\* search_body of search_with_filters, None values removed
SearchWithFiltersBody(a) ==
    LET final_query == FinalQuery(a.query, a.categories, a.tags)
        must_clauses == IF FiltersKeywordWanted(final_query)
                        THEN <<MultiMatchClause(final_query.s)>> ELSE <<>>
    IN [source_excludes |-> {"embeddings", "content"},
        query |-> QueryBody(must_clauses, FilterClauses(a)),
        sort |-> FiltersSort(a.sort_by),
        highlight |-> IF StrTruthy(final_query) THEN "title,subtitle,content" ELSE ""]

SearchBody(a) ==
    IF a.op = "search_articles" THEN SearchArticlesBody(a) ELSE SearchWithFiltersBody(a)

\* the dict a search returns: on success the echo of the final and the
\* original query, after a failed client.search only success = False
SearchResult(a, search_body) ==
    [made |-> TRUE, body |-> search_body, success |-> a.es = "ok",
     query |-> IF a.es = "ok" THEN FinalQuery(a.query, a.categories, a.tags) ELSE NoneStr,
     original_query |-> IF a.es = "ok" THEN a.query ELSE NoneStr]

\* NewsletterSearchService.search_articles
search_articles ==
    /\ searchArgs.op = "search_articles"
    /\ ~ searchCall.made
    /\ searchCall' = SearchResult(searchArgs, SearchArticlesBody(searchArgs))
    /\ UNCHANGED <<pgVars, likeVars, opCount, commentVars, ingestVars, storageVars, searchArgs>>
    /\ UNCHANGED <<detailVars, behaviorVars, lateVars>>

\* NewsletterSearchService.search_with_filters
search_with_filters ==
    /\ searchArgs.op = "search_with_filters"
    /\ ~ searchCall.made
    /\ searchCall' = SearchResult(searchArgs, SearchWithFiltersBody(searchArgs))
    /\ UNCHANGED <<pgVars, likeVars, opCount, commentVars, ingestVars, storageVars, searchArgs>>
    /\ UNCHANGED <<detailVars, behaviorVars, lateVars>>

Queries == {NoneStr, Str(<<>>), Str(<<SP>>), Str(<<"agent">>), Str(<<"agent", SP>>)}

CategoryLists == {NoneList, List(<<>>), List(<< <<"AI">> >>)}

TagLists ==
    {NoneList, List(<< <<>> >>), List(<< <<SP>> >>), List(<< <<"GPT">> >>),
     List(<< <<>>, <<"GPT">> >>)}

SortBys == {"_score", "size", "post_date"}

\* the requests of GET|POST /newsletter/search (query is a required str)
ArticleSearchRequests ==
    [op : {"search_articles"}, query : Queries \ {NoneStr}, categories : CategoryLists,
     tags : TagLists, article_type : {None}, date_from : {None}, date_to : {None},
     min_wordcount : {NoneInt}, max_wordcount : {NoneInt},
     sort_by : SortBys, highlight : BOOLEAN, es : RemoteResults]

\* the requests of POST /newsletter/search/advanced
AdvancedSearchRequests ==
    [op : {"search_with_filters"}, query : Queries, categories : CategoryLists,
     tags : TagLists, article_type : {None, "newsletter"},
     date_from : {None, "2024-01-01"}, date_to : {None, "2024-12-31"},
     min_wordcount : {NoneInt, 0, 50}, max_wordcount : {NoneInt, 100},
     sort_by : SortBys, highlight : {FALSE}, es : RemoteResults]

InitSearch ==
    /\ newsletters = [n \in NewsletterIds |-> [likeCount |-> 0, commentCount |-> 0]]
    /\ comments = EmptyMap
    /\ likes = {}
    /\ txn = [c \in Conns |-> IdleTxn]
    /\ likeResult = [c \in Conns |-> NoResult]
    /\ obs = [i \in {} |-> NoObs]
    /\ nextId = 1
    /\ opCount = 0
    /\ commentCall = NoCommentCall
    /\ IngestUnused
    /\ StorageUnused
    /\ DetailUnused
    /\ BehaviorUnused
    /\ LateUnused
    /\ searchArgs \in ArticleSearchRequests \cup AdvancedSearchRequests
    /\ searchCall = NoSearchCall

NextSearch ==
    \/ search_articles
    \/ search_with_filters

SpecSearch == InitSearch /\ [][NextSearch]_vars

----------------------------------------------------------------------------
(* Properties of the search service *)

\* the structured filters of a request, as the set of those supplied
SuppliedFilters(a) ==
    {f \in {"article_type", "date_from", "date_to"} : a[f] # None}
    \cup {f \in {"min_wordcount", "max_wordcount"} : a[f] # NoneInt}

\* the clauses of bool.filter with the given kind and field
FilterClausesOn(search_body, clause, field) ==
    {i \in DOMAIN search_body.query.filter :
        /\ search_body.query.filter[i].clause = clause
        /\ search_body.query.filter[i].field = field}

\* the query, the categories and the non-blank tags joined by single spaces
\* and trimmed
JoinedAndTrimmed(a) ==
    Strip(Join(<<OrEmpty(a.query)>> \o a.categories.items \o ValidTags(a.tags)))

\* C13: search_articles and search_with_filters build a match_all query
\* whenever the query is empty and no categories, no non-blank tags and no
\* structured filters are supplied.
C13_EmptySearchIsMatchAll ==
    (searchCall.made
       /\ searchArgs.query \in {NoneStr, Str(<<>>)}
       /\ ~ ListTruthy(searchArgs.categories)
       /\ ValidTags(searchArgs.tags) = <<>>
       /\ SuppliedFilters(searchArgs) = {})
    => searchCall.body.query = MatchAll

C13_Witness ==
    /\ searchCall.made /\ searchCall.success
    /\ searchArgs.op = "search_with_filters"
    /\ searchArgs.query = Str(<<>>)
    /\ searchArgs.tags = List(<< <<SP>> >>)
    /\ searchArgs.categories = List(<<>>)
    /\ SuppliedFilters(searchArgs) = {}
    /\ searchCall.body.query = MatchAll

\* C14: for search_articles and search_with_filters a query of whitespace
\* only produces the same Elasticsearch body as the empty query with
\* otherwise equal arguments.
C14_WhitespaceQueryIsEmptyQuery ==
    (searchCall.made
       /\ ~ searchArgs.query.null
       /\ searchArgs.query.s # <<>>
       /\ Strip(searchArgs.query.s) = <<>>)
    => searchCall.body = SearchBody([searchArgs EXCEPT !.query = Str(<<>>)])

\* C15: the final query used and echoed by a search is the original query
\* followed by the categories and the non-blank tags, joined by single
\* spaces and trimmed; categories and tags never become term filters.
C15_FinalQueryJoinedAndTrimmed ==
    (searchCall.made /\ searchCall.success)
    => /\ searchCall.query.s = JoinedAndTrimmed(searchArgs)
       /\ \A i \in DOMAIN searchCall.body.query.must :
             searchCall.body.query.must[i].value = JoinedAndTrimmed(searchArgs)
       /\ \A i \in DOMAIN searchCall.body.query.filter :
             searchCall.body.query.filter[i].field \notin {"category", "categories", "tags"}

\* C16: search_with_filters adds one bool.filter clause for every structured
\* filter supplied: a term clause for article_type, a date range clause when
\* date_from or date_to is given, a range clause when min_wordcount or
\* max_wordcount is given.
C16_EverySuppliedFilterApplied ==
    (searchCall.made /\ searchArgs.op = "search_with_filters")
    => /\ "article_type" \in SuppliedFilters(searchArgs) =>
             Cardinality(FilterClausesOn(searchCall.body, "term", "document_type")) = 1
       /\ SuppliedFilters(searchArgs) \cap {"date_from", "date_to"} # {} =>
             \E i \in DOMAIN searchCall.body.query.filter :
                /\ searchCall.body.query.filter[i].clause = "range"
                /\ searchCall.body.query.filter[i].field # "size"
       /\ SuppliedFilters(searchArgs) \cap {"min_wordcount", "max_wordcount"} # {} =>
             Cardinality(FilterClausesOn(searchCall.body, "range", "size")) = 1

\* C17: every search honours sort_by: '_score' keeps the relevance order (no
\* sort clause), 'post_date' sorts by publish date descending with missing
\* dates last, 'size' sorts by size descending.
C17_SortByHonoured ==
    searchCall.made
    => /\ searchArgs.sort_by = "_score" => searchCall.body.sort = <<>>
       /\ searchArgs.sort_by = "post_date" =>
             /\ searchCall.body.sort # <<>>
             /\ searchCall.body.sort[1] = SortKey("publish_date", "desc", "_last")
       /\ searchArgs.sort_by = "size" =>
             /\ searchCall.body.sort # <<>>
             /\ searchCall.body.sort[1] = SortKey("size", "desc", "")

----------------------------------------------------------------------------
(* Article detail: NewsletterSearchService.get_article_by_id and its endpoint *)

ArticleIds == {"art1", "art2"}

ErrArticleNotFound == "Article not found"

ErrDetailUpstream == "upstream error"

\* response['_source'] of a found document, for three of the fields both
\* stores can supply: a top-level string, a top-level counter, a metadata key
EsSources ==
    [category : {Absent, "", "tech"}, like_count : {AbsentInt, 0, 7},
     metadata_author : {Absent, "", "es-author"}]

\* the record get_newsletter_by_id returns; None is a NULL column, Absent a
\* key the metadata dict does not hold
PgRows ==
    [category : {None, "news"}, like_count : {0, 3},
     metadata_author : {Absent, None, "pg-author"}]

\* the article dict built from the Elasticsearch document: of the three
\* fields only metadata is copied from _source
BaseArticle(source) ==
    [category |-> Absent, like_count |-> AbsentInt,
     metadata_author |-> source.metadata_author]

\* the test of the loop over pg_fields_mapping, for a str and for an int
\* field: the PostgreSQL value is not None and the article lacks the key or
\* holds None, '' or 0 under it
PgFillsStr(pg_value, article_value) ==
    /\ pg_value # None
    /\ article_value \in {Absent, None, ""}

PgFillsInt(pg_value, article_value) ==
    /\ pg_value # NoneInt
    /\ article_value \in {AbsentInt, 0}

\* the test of the loop over pg_metadata
PgMetaFills(meta_value, article_value) ==
    /\ meta_value \notin {Absent, None}
    /\ article_value \in {Absent, None, ""}

\* the article after the PostgreSQL record was merged in
MergedArticle(article, row) ==
    [category |-> IF PgFillsStr(row.category, article.category)
                  THEN row.category ELSE article.category,
     like_count |-> IF PgFillsInt(row.like_count, article.like_count)
                    THEN row.like_count ELSE article.like_count,
     metadata_author |-> IF PgMetaFills(row.metadata_author, article.metadata_author)
                         THEN row.metadata_author ELSE article.metadata_author]

\* article.update({... "like_count": 0 ...}) when there is no record or the
\* lookup raised
DefaultedArticle(article) == [article EXCEPT !.like_count = 0]

\* the dict get_article_by_id returns
DetailResult(a) ==
    IF a.es = "raise"
    THEN [success |-> FALSE, error |-> ErrDetailUpstream, article |-> NoArticle]
    ELSE IF a.es = "missing"
    THEN [success |-> FALSE, error |-> ErrArticleNotFound, article |-> NoArticle]
    ELSE [success |-> TRUE, error |-> "",
          article |-> IF a.pg = "row"
                      THEN MergedArticle(BaseArticle(a.source), a.row)
                      ELSE DefaultedArticle(BaseArticle(a.source))]

DetailStatus_Always500(result) == IF result.success THEN 200 ELSE 500

\* the status the endpoint answers with
DetailStatus(result) ==
    IF result.success THEN 200
    ELSE IF result.error = ErrArticleNotFound THEN 404 ELSE 500

\* GET /newsletter/search/{article_id}
get_article_by_id ==
    /\ ~ detailCall.made
    /\ LET result == DetailResult(detailArgs) IN
       detailCall' = [made |-> TRUE, success |-> result.success, error |-> result.error,
                      article |-> result.article, status |-> DetailStatus(result)]
    /\ UNCHANGED <<pgVars, likeVars, opCount, commentVars, ingestVars, storageVars>>
    /\ UNCHANGED <<searchVars, detailArgs, behaviorVars, lateVars>>

\* what the index and the table hold for the requested id
DetailRequests ==
    [article_id : ArticleIds, es : {"missing", "raise"}, source : {NoArticle},
     pg : {"none"}, row : {NoArticle}]
    \cup [article_id : ArticleIds, es : {"found"}, source : EsSources,
          pg : {"none", "raise"}, row : {NoArticle}]
    \cup [article_id : ArticleIds, es : {"found"}, source : EsSources,
          pg : {"row"}, row : PgRows]

InitDetail ==
    /\ newsletters = [n \in NewsletterIds |-> [likeCount |-> 0, commentCount |-> 0]]
    /\ comments = EmptyMap
    /\ likes = {}
    /\ txn = [c \in Conns |-> IdleTxn]
    /\ likeResult = [c \in Conns |-> NoResult]
    /\ obs = [i \in {} |-> NoObs]
    /\ nextId = 1
    /\ opCount = 0
    /\ commentCall = NoCommentCall
    /\ IngestUnused
    /\ StorageUnused
    /\ SearchUnused
    /\ BehaviorUnused
    /\ LateUnused
    /\ detailArgs \in DetailRequests
    /\ detailCall = NoDetailCall

NextDetail == get_article_by_id

SpecDetail == InitDetail /\ [][NextDetail]_vars

\* C18: fetching an article by an id absent from the index yields
\* success = false with the not-found error, and the endpoint answers 404.
C18_AbsentArticleIs404 ==
    (detailCall.made /\ detailArgs.es = "missing")
    => /\ ~ detailCall.success
       /\ detailCall.error = ErrArticleNotFound
       /\ detailCall.status = 404

C18_Witness ==
    /\ detailCall.made /\ detailArgs.es = "missing"
    /\ detailCall.status = 404
    /\ detailArgs.article_id = "art2"

\* C19: in the article returned, a value that is present and non-empty in
\* the Elasticsearch document is the one returned, for every field both
\* stores can supply; the PostgreSQL value is used only when the
\* Elasticsearch value is absent or empty.
C19_ElasticsearchValueWins ==
    (detailCall.made /\ detailCall.success)
    => /\ detailArgs.source.category \notin {Absent, ""} =>
             detailCall.article.category = detailArgs.source.category
       /\ detailArgs.source.like_count \notin {AbsentInt, 0} =>
             detailCall.article.like_count = detailArgs.source.like_count
       /\ detailArgs.source.metadata_author \notin {Absent, ""} =>
             detailCall.article.metadata_author = detailArgs.source.metadata_author

----------------------------------------------------------------------------
(* User behaviour tracking: UserBehaviorService and its endpoints *)

MaxBehaviorOps == 2   \* behaviour requests issued in one behaviour

\* the values of the BehaviorType enumeration
BehaviorType ==
    {"search_query", "search_result_click", "search_filter_apply",
     "document_view", "document_download", "document_upload", "document_delete",
     "document_share",
     "newsletter_view", "newsletter_like", "newsletter_share", "newsletter_comment",
     "user_login", "user_logout", "page_view", "feature_use",
     "bucket_create", "bucket_delete", "object_list",
     "reading_session_start", "reading_session_end", "reading_progress_update",
     "section_progress_update", "scroll_behavior_track", "reading_insights_generated"}

\* behavior_type values a client sends to /record and /batch-record
RequestedTypes == {"search_query", "newsletter_view", "reading_session_end", "not_a_type"}

\* RecordBehaviorRequest.behavior_type: BehaviorType; anything else is
\* refused by the request model before the handler runs
RequestModelAccepts(behavior_type) == behavior_type \in BehaviorType

\* action_details of a record that carries none
NoDetails == [id |-> None, document |-> None]

\* the row of one INSERT of record_behavior: the columns written; of the
\* metadata column the keys that are read back, and action_details, which
\* the INSERT stores inside metadata
BehaviorRow(behavior_type, user_id, session_id, target_type, target_id, details, completed) ==
    [userId |-> user_id, action |-> behavior_type,
     targetType |-> IF target_type = None THEN "" ELSE target_type,
     targetId |-> IF target_id = None THEN "" ELSE target_id,
     metadata |-> [session_id |-> session_id, is_completed |-> completed],
     action_details |-> details]

\* the rows of a list of record_behavior calls of which those at the
\* positions in `stored` went through; a failed INSERT is caught inside
\* record_behavior and only changes its result
RECURSIVE StoredRows(_, _, _)
StoredRows(rows, stored, i) ==
    IF i > Len(rows) THEN <<>>
    ELSE (IF i \in stored THEN <<rows[i]>> ELSE <<>>) \o StoredRows(rows, stored, i + 1)

\* the writes of one request, any of which the database may refuse
WriteRows(rows) ==
    /\ opCount < MaxBehaviorOps
    /\ opCount' = opCount + 1
    /\ \E stored \in SUBSET DOMAIN rows :
          user_behaviors' = user_behaviors \o StoredRows(rows, stored, 1)
    /\ UNCHANGED <<pgVars, likeVars, commentVars, ingestVars>>
    /\ UNCHANGED <<storageVars, searchVars, detailVars, lateVars>>

\* POST /user-behaviors/record
record_behavior(behavior_type, target_type) ==
    WriteRows(IF RequestModelAccepts(behavior_type)
              THEN <<BehaviorRow(behavior_type, None, None, target_type, None,
                                 NoDetails, FALSE)>>
              ELSE <<>>)

\* POST /user-behaviors/batch-record: one record_behavior per element, none
\* when an element is refused by the request model
batch_record_behaviors(behaviors) ==
    WriteRows(IF \A i \in DOMAIN behaviors : RequestModelAccepts(behaviors[i])
              THEN [i \in DOMAIN behaviors |->
                      BehaviorRow(behaviors[i], None, None, None, None, NoDetails, FALSE)]
              ELSE <<>>)

\* behavior_type of save_reading_session
SessionBehaviorType(action_type) ==
    IF action_type = "start" THEN "reading_session_start" ELSE "reading_session_end"

\* save_reading_session: session_data is the dict whose 'id' is session_id
SessionRow(user_id, document_id, session_id, action_type) ==
    BehaviorRow(SessionBehaviorType(action_type), user_id, session_id,
                "document", document_id,
                [id |-> session_id, document |-> document_id], FALSE)

\* POST /user-behaviors/reading-session
manage_reading_session(user_id, document_id, session_id, action) ==
    WriteRows(<<SessionRow(user_id, document_id, session_id, action)>>)

\* the behavior_type of the closing record of save_complete_reading_progress
ProgressSaveType == "reading_progress_save"

\* a section dict of a SaveProgressRequest. The dict carries the section id
\* only; the document it belongs to is kept beside it to tell the sections
\* of two documents apart.
Section(document_id, id) == [id |-> id, document |-> document_id]

\* save_section_progress: target_id is the section's own id
SectionRow(user_id, session_id, section) ==
    BehaviorRow("section_progress_update", user_id, session_id,
                "section", section.id, section, FALSE)

\* the record_behavior calls of save_complete_reading_progress, in order;
\* overallProgress = None raises inside save_reading_progress before any
\* write and ends the save
ProgressSaveRows(user_id, document_id, session_id, overall, completed, sections, scroll, insights) ==
    LET Doc(behavior_type, done) ==
          BehaviorRow(behavior_type, user_id, session_id, "document", document_id,
                      [id |-> None, document |-> document_id], done)
    IN  IF ~ overall THEN <<>>
        ELSE <<Doc("reading_progress_update", completed)>>
             \o [i \in DOMAIN sections |-> SectionRow(user_id, session_id, sections[i])]
             \o (IF scroll THEN <<Doc("scroll_behavior_track", FALSE)>> ELSE <<>>)
             \o (IF insights
                 THEN <<BehaviorRow("reading_insights_generated", user_id, None,
                                    "document", document_id,
                                    [id |-> None, document |-> document_id], FALSE)>>
                 ELSE <<>>)
             \o <<Doc(ProgressSaveType, FALSE)>>

\* POST /user-behaviors/reading-progress/save
save_complete_reading_progress(user_id, document_id, session_id, overall, completed, sections, scroll, insights) ==
    WriteRows(ProgressSaveRows(user_id, document_id, session_id, overall, completed,
                               sections, scroll, insights))

InitBehavior ==
    /\ newsletters = [n \in NewsletterIds |-> [likeCount |-> 0, commentCount |-> 0]]
    /\ comments = EmptyMap
    /\ likes = {}
    /\ txn = [c \in Conns |-> IdleTxn]
    /\ likeResult = [c \in Conns |-> NoResult]
    /\ obs = [i \in {} |-> NoObs]
    /\ nextId = 1
    /\ opCount = 0
    /\ commentCall = NoCommentCall
    /\ IngestUnused
    /\ ExtUnused

NextBehavior ==
    \/ \E t \in RequestedTypes, g \in {"", "newsletter"} : record_behavior(t, g)
    \/ \E t1 \in RequestedTypes, t2 \in RequestedTypes : batch_record_behaviors(<<t1, t2>>)
    \/ \E a \in {"start", "end", "update"} : manage_reading_session("u1", "d1", "s1", a)
    \/ \E o \in BOOLEAN, n \in 0..1, c \in BOOLEAN, i \in BOOLEAN :
          save_complete_reading_progress("u1", "d1", "s1", o, FALSE,
                                         [k \in 1..n |-> Section("d1", "sec1")], c, i)

SpecBehavior == InitBehavior /\ [][NextBehavior]_vars

\* C20: every record stored in user_behaviors carries a behavior type that is
\* a member of the BehaviorType enumeration, whichever operation wrote it.
C20_StoredTypesAreEnumMembers ==
    \A i \in DOMAIN user_behaviors : user_behaviors[i].action \in BehaviorType

----------------------------------------------------------------------------
(* Reading sessions and reading progress read back from user_behaviors *)

ReadingUsers == {"u1", "u2"}
Documents == {"d1", "d2"}
SessionIds == {"s1", "s2"}
SectionIds == {"sec1"}

\* a Python value that counts as true in `if x:` (None and '' do not)
Truthy(x) == x \notin {None, ""}

\* dict.get(key): None when the dict has no such key
DictGet(d, key) == IF key \in DOMAIN d THEN d[key] ELSE None

Reverse(seq) == [i \in 1..Len(seq) |-> seq[Len(seq) + 1 - i]]

\* LIMIT n
Limit(seq, n) == SubSeq(seq, 1, Min(n, Len(seq)))

\* one row as get_user_behaviors hands it out: dict(row), i.e. the columns
\* of the table, plus the keys the loop adds
BehaviorDict(row, i) ==
    [id |-> i, userId |-> row.userId, action |-> row.action,
     targetType |-> row.targetType, targetId |-> row.targetId,
     metadata |-> row.metadata,
     user_id |-> row.userId, behavior_type |-> row.action,
     target_type |-> row.targetType, target_id |-> row.targetId,
     action_details |-> row.action_details]

\* UserBehaviorService.get_user_behaviors: a condition per argument that is
\* given, newest first, at most `limit` rows
get_user_behaviors(user_id, session_id, behavior_type, target_type, target_id, limit) ==
    LET Matches(b) ==
          /\ Truthy(user_id) => b.userId = user_id
          /\ Truthy(session_id) => b.metadata.session_id = session_id
          /\ Truthy(behavior_type) => b.action = behavior_type
          /\ Truthy(target_type) => b.targetType = target_type
          /\ Truthy(target_id) => b.targetId = target_id
        dicts == [i \in DOMAIN user_behaviors |-> BehaviorDict(user_behaviors[i], i)]
    IN  Limit(SelectSeq(Reverse(dicts), Matches), limit)

\* GET /user-behaviors/reading-session/active/{user_id}: the session_data of
\* the recent starts that have a session id and no end record
get_active_reading_sessions(user_id) ==
    LET recent_behaviors ==
          get_user_behaviors(user_id, None, "reading_session_start", None, None, 10)
        Active(behavior) ==
          LET session_id == DictGet(behavior, "session_id") IN
            /\ Truthy(session_id)
            /\ get_user_behaviors(user_id, session_id, "reading_session_end",
                                  None, None, 1) = <<>>
        active == SelectSeq(recent_behaviors, Active)
    IN  [i \in DOMAIN active |-> active[i].action_details]

\* _safe_get_metadata_value(behavior, 'is_completed', False)
IsCompleted(behavior) == behavior.metadata.is_completed

\* UserBehaviorService.load_reading_progress: the parts of the response that
\* are built from the section and overall-progress records
load_reading_progress(user_id, document_id) ==
    LET overall_progress_behaviors ==
          get_user_behaviors(user_id, None, "reading_progress_update",
                             "document", document_id, 1)
        section_progress_behaviors ==
          get_user_behaviors(user_id, None, "section_progress_update",
                             "section", None, 50)
    IN  [section_progress |->
           [i \in DOMAIN section_progress_behaviors |->
              section_progress_behaviors[i].action_details],
         should_resume |->
           (overall_progress_behaviors # <<>>
            /\ ~ IsCompleted(overall_progress_behaviors[1]))]

InitReading == InitBehavior

NextReading ==
    \/ \E u \in ReadingUsers, d \in Documents, sid \in SessionIds,
          a \in {"start", "end", "update"} : manage_reading_session(u, d, sid, a)
    \/ \E u \in ReadingUsers, d \in Documents, sid \in SessionIds,
          done \in BOOLEAN, n \in 0..1 :
          save_complete_reading_progress(u, d, sid, TRUE, done,
                                         [k \in 1..n |-> Section(d, "sec1")],
                                         FALSE, FALSE)

SpecReading == InitReading /\ [][NextReading]_vars

\* the rows of user_behaviors of one user and one kind, newest first
RowsOf(user_id, behavior_type) ==
    SelectSeq(Reverse(user_behaviors),
              LAMBDA row : row.userId = user_id /\ row.action = behavior_type)

\* C22: a session whose start is among the user's 10 most recent recorded
\* starts and for which no end is recorded is listed by
\* get_active_reading_sessions for that user; a session for which an end is
\* recorded is not listed.
C22_OpenSessionIsListed ==
    \A u \in ReadingUsers, sid \in SessionIds :
      LET starts == Limit(RowsOf(u, "reading_session_start"), 10)
          ends == RowsOf(u, "reading_session_end")
          started == \E i \in DOMAIN starts : starts[i].metadata.session_id = sid
          ended == \E i \in DOMAIN ends : ends[i].metadata.session_id = sid
          active == get_active_reading_sessions(u)
          listed == \E i \in DOMAIN active : active[i].id = sid
      IN  /\ (started /\ ~ ended) => listed
          /\ ended => ~ listed

\* C30: every entry of section_progress that load_reading_progress returns
\* for a user and a document was saved for that document, and should_resume
\* is true exactly when the latest overall-progress record of that user for
\* that document exists and is not completed.
C30_ProgressOfRequestedDocumentOnly ==
    \A u \in ReadingUsers, d \in Documents :
      LET loaded == load_reading_progress(u, d)
          progress == SelectSeq(RowsOf(u, "reading_progress_update"),
                                LAMBDA row : row.targetId = d)
      IN  /\ \A i \in DOMAIN loaded.section_progress :
                loaded.section_progress[i].document = d
          /\ loaded.should_resume
               <=> (progress # <<>> /\ ~ progress[1].metadata.is_completed)

----------------------------------------------------------------------------
(* Storage service selection: StorageFactory and get_storage_service *)

MaxFactoryOps == 3    \* StorageFactory calls issued in one behaviour

\* the values of the StorageType enumeration
StorageType == {"minio", "oss"}

\* settings.storage_type after .lower(); "s3" stands for a value that is no
\* StorageType
ConfiguredTypes == {"minio", "oss", "s3"}

ErrOssUnavailable == "OSS service is not available. Please install oss2 package."

\* `storage_type = StorageType(storage_type_str)`, MinIO on ValueError
ConfiguredType ==
    IF factoryEnv.storage_type \in StorageType THEN factoryEnv.storage_type ELSE "minio"

\* the type create_storage_service works with: the argument, or the
\* configured one when the argument is None
ResolveType(storage_type) ==
    IF storage_type = None THEN ConfiguredType ELSE storage_type

\* `if type_key not in cls._instances` with the condition negated
CacheHit_Never(type_key, cache) == FALSE

CacheHit(type_key, cache) == type_key \in DOMAIN cache

\* the construction of a service of the type raises before anything is stored
ConstructionError(type_key) ==
    IF type_key = "oss" /\ ~ factoryEnv.oss_available THEN ErrOssUnavailable ELSE ""

\* StorageFactory.create_storage_service on the cache `cache` with `count`
\* objects constructed so far: the cache and the count it leaves, the error
\* raised ("" for none), the instance returned
CreateOutcome(storage_type, cache, count) ==
    LET type_key == ResolveType(storage_type) IN
      IF CacheHit(type_key, cache)
      THEN [cache |-> cache, count |-> count, raised |-> "", result |-> cache[type_key]]
      ELSE IF ConstructionError(type_key) # ""
      THEN [cache |-> cache, count |-> count,
            raised |-> ConstructionError(type_key), result |-> NoInstance]
      ELSE [cache |-> [k \in DOMAIN cache \cup {type_key} |->
                          IF k = type_key THEN count + 1 ELSE cache[k]],
            count |-> count + 1, raised |-> "", result |-> count + 1]

FactoryStep(op, arg, out) ==
    /\ opCount < MaxFactoryOps
    /\ opCount' = opCount + 1
    /\ instances' = out.cache
    /\ instanceCount' = out.count
    /\ factoryCall' = [op |-> op, arg |-> arg, pre |-> instances,
                       raised |-> out.raised, result |-> out.result]
    /\ UNCHANGED <<pgVars, likeVars, commentVars, ingestVars, factoryEnv>>
    /\ UNCHANGED <<storageVars, searchVars, detailVars, behaviorVars>>

create_storage_service(storage_type) ==
    /\ FactoryStep("create_storage_service", storage_type,
                   CreateOutcome(storage_type, instances, instanceCount))
    /\ UNCHANGED service_cache

get_current_storage_service ==
    /\ FactoryStep("get_current_storage_service", None,
                   CreateOutcome(None, instances, instanceCount))
    /\ UNCHANGED service_cache

\* @lru_cache(): the first result is kept and handed out ever after; a call
\* that raises stores nothing
get_storage_service ==
    IF service_cache # NoInstance
    THEN /\ FactoryStep("get_storage_service", None,
                        [cache |-> instances, count |-> instanceCount,
                         raised |-> "", result |-> service_cache])
         /\ UNCHANGED service_cache
    ELSE LET out == CreateOutcome(None, instances, instanceCount) IN
           /\ FactoryStep("get_storage_service", None, out)
           /\ service_cache' = out.result

clear_instances ==
    FactoryStep("clear_instances", None,
                [cache |-> EmptyMap, count |-> instanceCount,
                 raised |-> "", result |-> NoInstance])
    /\ UNCHANGED service_cache

\* the process once `storage_service = get_storage_service()` at the end of
\* storage_factory has run: the import fails, and there is no process, when
\* OSS is configured and oss2 is not installed
InitFactory ==
    /\ newsletters = [n \in NewsletterIds |-> [likeCount |-> 0, commentCount |-> 0]]
    /\ comments = EmptyMap
    /\ likes = {}
    /\ txn = [c \in Conns |-> IdleTxn]
    /\ likeResult = [c \in Conns |-> NoResult]
    /\ obs = [i \in {} |-> NoObs]
    /\ nextId = 1
    /\ opCount = 0
    /\ commentCall = NoCommentCall
    /\ IngestUnused
    /\ StorageUnused
    /\ SearchUnused
    /\ DetailUnused
    /\ BehaviorUnused
    /\ factoryEnv \in [storage_type : ConfiguredTypes, oss_available : BOOLEAN]
    /\ ConstructionError(ConfiguredType) = ""
    /\ instances = [k \in {ConfiguredType} |-> 1]
    /\ service_cache = 1
    /\ instanceCount = 1
    /\ factoryCall = NoFactoryCall

NextFactory ==
    \/ \E t \in StorageType \cup {None} : create_storage_service(t)
    \/ get_current_storage_service
    \/ get_storage_service
    \/ clear_instances

SpecFactory == InitFactory /\ [][NextFactory]_vars

\* C21: create_storage_service works with the type passed, with the
\* configured type when none is passed, with MinIO when the configured type
\* is no storage type. It returns the instance cached for that type when
\* there is one and creates nothing; otherwise it creates and caches exactly
\* one new instance, or raises and leaves the cache as it was.
C21_CachedSingletonPerType ==
    factoryCall.op = "create_storage_service" =>
      LET type_key ==
            IF factoryCall.arg # None THEN factoryCall.arg
            ELSE IF factoryEnv.storage_type \in StorageType
                 THEN factoryEnv.storage_type ELSE "minio"
          pre == factoryCall.pre
      IN  IF factoryCall.raised # ""
          THEN /\ instances = pre
               /\ type_key \notin DOMAIN instances
               /\ factoryCall.result = NoInstance
          ELSE /\ type_key \in DOMAIN instances
               /\ factoryCall.result = instances[type_key]
               /\ \A k \in DOMAIN pre : k \in DOMAIN instances /\ instances[k] = pre[k]
               /\ DOMAIN instances \subseteq DOMAIN pre \cup {type_key}
               /\ type_key \notin DOMAIN pre =>
                     \A k \in DOMAIN pre : pre[k] # factoryCall.result

\* a call for a type whose instance is cached, after an earlier call of the
\* factory
C21_Witness ==
    /\ factoryCall.op = "create_storage_service"
    /\ factoryCall.raised = ""
    /\ opCount >= 2
    /\ ResolveType(factoryCall.arg) \in DOMAIN factoryCall.pre

\* C29: the instance get_storage_service hands out is the instance the
\* factory holds for the configured storage type, so that
\* get_current_storage_service returns the same one.
C29_OneLiveInstancePerType ==
    (service_cache # NoInstance /\ ConfiguredType \in DOMAIN instances)
    => instances[ConfiguredType] = service_cache

----------------------------------------------------------------------------
(* Comment threads: listing, replies and soft deletion *)

MaxInitReplies == 3   \* replies the thread under c1 starts with

\* createdAt of a comment, as its rank in the order of creation
CreatedAt(id) == CHOOSE i \in DOMAIN CommentIdPool : CommentIdPool[i] = id

\* ORDER BY key DESC over the rows `ids`
RECURSIVE OrderDesc(_, _)
OrderDesc(ids, key) ==
    IF ids = {} THEN <<>>
    ELSE LET top == CHOOSE i \in ids : \A j \in ids : key[j] <= key[i]
         IN  <<top>> \o OrderDesc(ids \ {top}, key)

\* ORDER BY "createdAt" ASC
OldestFirst(ids) == Reverse(OrderDesc(ids, [i \in ids |-> CreatedAt(i)]))

\* ORDER BY "createdAt" DESC, or "likeCount" DESC, "createdAt" DESC
Ordered(ids, sort_by) ==
    IF sort_by = "latest" THEN OrderDesc(ids, [i \in ids |-> CreatedAt(i)])
    ELSE OrderDesc(ids, [i \in ids |->
                           comments[i].likeCount * (Len(CommentIdPool) + 1) + CreatedAt(i)])

\* LIMIT page_size OFFSET (page - 1) * page_size
Page(seq, page, page_size) ==
    SubSeq(seq, (page - 1) * page_size + 1, Min(page * page_size, Len(seq)))

\* WHERE "parentId" = $1 AND status = 'PUBLISHED'
PublishedReplies(comment_id) ==
    {i \in DOMAIN comments :
        comments[i].parentId = comment_id /\ comments[i].status = "PUBLISHED"}

\* (SELECT COUNT(*) FROM comments WHERE "parentId" = c.id)
ReplyCount(comment_id) ==
    Cardinality({i \in DOMAIN comments : comments[i].parentId = comment_id})

\* CommentService.get_comment_replies
get_comment_replies(comment_id, page, page_size) ==
    [total |-> Cardinality(PublishedReplies(comment_id)),
     replies |-> Page(OldestFirst(PublishedReplies(comment_id)), page, page_size)]

\* the main comments of a newsletter:  "parentId" IS NULL AND status = 'PUBLISHED'
PublishedTopLevel(newsletter_id) ==
    {i \in DOMAIN comments :
        /\ comments[i].targetId = newsletter_id
        /\ comments[i].targetType = "NEWSLETTER"
        /\ comments[i].parentId = None
        /\ comments[i].status = "PUBLISHED"}

\* CommentService.get_newsletter_comments
get_newsletter_comments(newsletter_id, page, page_size, sort_by) ==
    LET rows == Page(Ordered(PublishedTopLevel(newsletter_id), sort_by), page, page_size)
        Entry(id) ==
          [id |-> id, parentId |-> comments[id].parentId, status |-> comments[id].status,
           replyCount |-> ReplyCount(id),
           replies |-> IF ReplyCount(id) > 0
                       THEN Limit(OldestFirst(PublishedReplies(id)), 3)
                       ELSE <<>>]
    IN  [total |-> Cardinality(PublishedTopLevel(newsletter_id)),
         comments |-> [i \in DOMAIN rows |-> Entry(rows[i])]]

\* CommentService.delete_comment: UPDATE comments SET status = 'DELETED'
\* WHERE id = $2; a database failure is caught and changes nothing
delete_comment(comment_id, fails) ==
    /\ opCount < MaxCommentOps
    /\ opCount' = opCount + 1
    /\ comments' = IF ~ fails /\ comment_id \in DOMAIN comments
                   THEN [comments EXCEPT ![comment_id].status = "DELETED"]
                   ELSE comments
    /\ UNCHANGED <<newsletters, likes, nextId, likeVars, commentVars, ingestVars, extVars>>

\* a newsletter with no comments, or with the comment c1 and some replies
\* to it, each counted as create_comment counts them
InitThread ==
    /\ \E replies \in -1..MaxInitReplies :
          /\ comments = [i \in {CommentIdPool[k] : k \in 1..(replies + 1)} |->
                           CommentRow(DefaultUser, "n1",
                                      IF i = "c1" THEN None ELSE "c1", 1, 0)]
          /\ newsletters = [n \in NewsletterIds |->
                              [likeCount |-> 0,
                               commentCount |-> IF replies >= 0 THEN 1 ELSE 0]]
    /\ likes = {}
    /\ txn = [c \in Conns |-> IdleTxn]
    /\ likeResult = [c \in Conns |-> NoResult]
    /\ obs = [i \in {} |-> NoObs]
    /\ nextId = 1
    /\ opCount = 0
    /\ commentCall = NoCommentCall
    /\ IngestUnused
    /\ ExtUnused

NextThread ==
    \/ \E n \in NewsletterIds, p \in {None, "c1"}, f \in {"none", "insert"} :
          create_comment(n, Text(0, 1, 0), p, None, f)
    \/ \E c \in {"c1", "c2", "c3", MissingId}, fails \in BOOLEAN : delete_comment(c, fails)

SpecThread == InitThread /\ [][NextThread]_vars

\* C23: every comment that get_newsletter_comments lists is a top-level
\* PUBLISHED comment; it carries at most 3 replies, which are its earliest
\* PUBLISHED replies in createdAt order, and a replyCount equal to the total
\* that get_comment_replies reports for it, so that soft-deleted replies are
\* neither listed nor counted.
C23_ListedRepliesAndCount ==
    \A n \in NewsletterIds, sort_by \in {"latest", "popular"} :
      LET listed == get_newsletter_comments(n, 1, 20, sort_by).comments IN
        \A i \in DOMAIN listed :
          LET c == listed[i]
              all == get_comment_replies(c.id, 1, Len(CommentIdPool))
          IN  /\ c.parentId = None /\ c.status = "PUBLISHED"
              /\ Len(c.replies) <= 3
              /\ c.replies = Limit(all.replies, 3)
              /\ \A k \in DOMAIN c.replies : comments[c.replies[k]].status = "PUBLISHED"
              /\ c.replyCount = all.total

\* C27: a newsletter's commentCount equals the number of its top-level
\* PUBLISHED comments, the total that get_newsletter_comments reports for it.
C27_CommentCountMatchesListing ==
    \A n \in NewsletterIds :
       newsletters[n].commentCount = get_newsletter_comments(n, 1, 20, "latest").total

\* C24: the create-comment endpoint answers 404 only when the newsletter or
\* the parent comment is absent and 400 only for a content validation error;
\* a failure of the database call itself is answered 500.
C24_StatusByKindOfFailure ==
    commentCall.made =>
       /\ commentCall.status = 404 =>
             commentCall.error \in {ErrNewsletterNotFound, ErrParentNotFound}
       /\ commentCall.status = 400 =>
             commentCall.error \in {ErrEmptyContent, ErrContentTooLong}
       /\ commentCall.error = ErrUpstream => commentCall.status = 500

====
